---- MODULE Spec2Model ----
(***************************************************************************)
(* A model of libraries/iio/iio.c: the interface registry, the attribute   *)
(* dispatcher and the binary framing of aggregate attribute reads/writes,  *)
(* the buffer operations, the network link with its connection queue, the  *)
(* capability document and start-up.                                       *)
(*                                                                         *)
(* Memory that the C code frees, leaves uninitialised or indexes out of    *)
(* bounds is kept in the state together with its allocation status, so     *)
(* that a later access through a dangling pointer is visible.  Undefined   *)
(* behaviour is resolved nondeterministically: ub_traps says whether the   *)
(* platform faults on an invalid access (MMU / hardened allocator) or      *)
(* silently carries on (bare metal); free_clobbers says whether free()     *)
(* overwrites the block it releases (allocator bookkeeping) or leaves the  *)
(* stale contents in place.                                                *)
(***************************************************************************)
EXTENDS Integers, Sequences, FiniteSets, TLC

VARIABLES
    iio_interfaces,   \* block the global pointer designates: "NULL", "live", "freed"
    num_interfaces,   \* iio_interfaces->num_interfaces (stale once freed)
    interfaces_ptr,   \* what iio_interfaces->interfaces points to: "NULL", "live", "freed", "wild"
    interfaces,       \* contents of that array; 0 is a NULL / uninitialised slot
    present,          \* records whose register succeeded and that were not unregistered since
    ub_traps,         \* TRUE: an invalid memory access faults; FALSE: it goes unnoticed
    free_clobbers,    \* TRUE: free() overwrites the released block; FALSE: contents stay
    req,              \* the last call and its arguments
    status,           \* "idle", "returned" or "fault" (the program crashed)
    ret,              \* value returned by the last call
    calls,            \* show/store handlers invoked by the last call, in order
    oob,              \* the last call made an invalid access (array index, NULL record)
    buf,              \* the caller's buffer after the last call
    scope,            \* attribute list under test in the framing specification
    ch_mask,          \* iface->ch_mask of every interface record: the set of its 1 bits
    num_ch,           \* iface->iio->num_ch of every interface record
    sockets,          \* g_desc->sockets: the queued connections, oldest first
    current_sock,     \* g_desc->current_sock: NULL, DEAD or a connection
    waiting,          \* clients that connected to the server and are not accepted yet
    accepted,         \* connections socket_accept returned so far: 1..accepted
    removed,          \* for every connection, the socket_remove calls made on it
    served,           \* the connections _get_next_socket made current, in order
    joined,           \* for every connection, Len(served) when it was accepted
    pc,               \* "idle", or "command" inside tinyiiod_read_command
    outxml,           \* *outxml of the caller of iio_get_xml: <<>> until written
    xml_heap,         \* document blocks of the last iio_get_xml: still allocated, freed
    g_desc,           \* the global descriptor pointer: NULL or the descriptor of an iio_init
    desc              \* *desc of the caller of iio_init

regVars == <<iio_interfaces, num_interfaces, interfaces_ptr, interfaces, present>>
devVars == <<ch_mask, num_ch>>
vars == <<iio_interfaces, num_interfaces, interfaces_ptr, interfaces, present,
          ub_traps, free_clobbers, req, status, ret, calls, oob, buf, scope,
          ch_mask, num_ch,
          sockets, current_sock, waiting, accepted, removed, served, joined, pc,
          outxml, xml_heap, g_desc, desc>>
xmlVars == <<outxml, xml_heap>>
initVars == <<g_desc, desc>>
netVars == <<sockets, current_sock, waiting, accepted, removed, served, joined, pc>>

(***************************************************************************)
(* Bounds of the model.                                                    *)
(***************************************************************************)
MaxReg == 3        \* largest num_interfaces explored
MaxAttrs == 2      \* longest attribute list in the framing specification
MaxVal == 5        \* longest value a show handler produces there

(***************************************************************************)
(* Return codes (error.h, errno.h).                                        *)
(***************************************************************************)
SUCCESS == 0
FAILURE == -1
ENOENT == 2
ENOMEM == 12
ENODEV == 19
EINVAL == 22

NULL == 0
TRAP == -1         \* a lookup that dereferenced an invalid pointer and faulted

(***************************************************************************)
(* Generic helpers.                                                        *)
(***************************************************************************)
Range(s) == {s[i] : i \in DOMAIN s}

(***************************************************************************)
(* The interface records drivers hand to iio_register (struct              *)
(* iio_interface with its struct iio_device).  An attribute is its name,   *)
(* the string its show handler produces and whether its handlers fail.     *)
(***************************************************************************)
Attr(n, v, f) == [name |-> n, val |-> v, fails |-> f]
AttrList(l) == [null |-> FALSE, list |-> l]
NoAttrList == [null |-> TRUE, list |-> <<>>]
Channel(n, o, l) == [name |-> n, ch_out |-> o, attributes |-> AttrList(l)]

Devices ==
    << [name |-> "adc", has_iio |-> TRUE,
        callbacks |-> {"transfer_dev_to_mem", "read_data", "transfer_mem_to_dev", "write_data"},
        attributes |-> AttrList(<<Attr("gain", <<55>>, FALSE),
                                  Attr("rate", <<49, 48, 48>>, FALSE)>>),
        channels |-> <<Channel("voltage0", FALSE,
                               <<Attr("raw", <<50, 53, 54, 51, 49>>, FALSE),
                                 Attr("scale", <<>>, TRUE)>>),
                       Channel("voltage0", TRUE, <<>>)>>],
       [name |-> "dac", has_iio |-> TRUE,
        callbacks |-> {"transfer_mem_to_dev", "write_data"},
        attributes |-> NoAttrList,
        channels |-> <<Channel("temp", TRUE, <<Attr("raw", <<52, 50>>, FALSE)>>)>>],
       [name |-> "adc", has_iio |-> TRUE,
        callbacks |-> {},
        attributes |-> AttrList(<<>>),
        channels |-> <<>>] >>

Ifaces == DOMAIN Devices
Name(r) == Devices[r].name
DevNames == {Name(r) : r \in Ifaces} \cup {"aux"}
ChNames == {"", "voltage0"}
AttrNames == {"", "raw", "gain"}
GarbageChoices == IF ub_traps THEN {0} ELSE {0, 1}

(***************************************************************************)
(* iio_get_interface: linear scan of the first num_interfaces slots.       *)
(***************************************************************************)
BadSlot(i) ==
    \/ interfaces_ptr \in {"NULL", "wild"}
    \/ i > Len(interfaces)
    \/ interfaces[i] = NULL

RECURSIVE get_interface_loop(_, _)
get_interface_loop(device_name, i) ==
    IF i > num_interfaces THEN NULL
    ELSE IF BadSlot(i)
         THEN IF ub_traps THEN TRAP ELSE get_interface_loop(device_name, i + 1)
    ELSE IF Name(interfaces[i]) = device_name THEN interfaces[i]
    ELSE get_interface_loop(device_name, i + 1)

iio_get_interface(device_name) ==
    IF iio_interfaces = "NULL" THEN NULL ELSE get_interface_loop(device_name, 1)

\* A supported-device check that lets every name through.
iio_supported_dev_any(device) == TRUE

iio_supported_dev(device) == NULL # iio_get_interface(device)

(***************************************************************************)
(* Bookkeeping shared by all calls.                                        *)
(***************************************************************************)
Req(op, iface, device, channel, ch_out, attr, len, oom) ==
    [op |-> op, iface |-> iface, device |-> device, channel |-> channel,
     ch_out |-> ch_out, attr |-> attr, len |-> len, oom |-> oom]

NoReq == Req("none", NULL, "", "", FALSE, "", 0, FALSE)

Running == status # "fault"

Fault(r) ==
    /\ req' = r
    /\ status' = "fault"
    /\ ret' = 0
    /\ calls' = <<>>
    /\ oob' = FALSE
    /\ buf' = <<>>

Return(r, v) ==
    /\ req' = r
    /\ status' = "returned"
    /\ ret' = v
    /\ calls' = <<>>
    /\ oob' = FALSE
    /\ buf' = <<>>

(***************************************************************************)
(* iio_register.                                                           *)
(***************************************************************************)
Grow(s, n, r) == [i \in 1..n |-> IF i = n THEN r ELSE IF i <= Len(s) THEN s[i] ELSE NULL]

iio_register(r, ok1, ok2) ==
    LET rq == Req("register", r, Name(r), "", FALSE, "", 0, ~(ok1 /\ ok2))
        n == (num_interfaces + 1) % 256
    IN
    /\ Running
    /\ num_interfaces < MaxReg
    /\ r \notin Range(present)
    /\ UNCHANGED <<ub_traps, free_clobbers, scope, devVars, netVars, xmlVars,
                   initVars>>
    /\ IF iio_interfaces = "NULL"
       THEN IF ~ok1
            THEN /\ Return(rq, -ENOMEM)
                 /\ UNCHANGED regVars
            ELSE IF ~ok2
            THEN /\ Return(rq, -ENOMEM)
                 /\ iio_interfaces' = "live"
                 /\ num_interfaces' = 1
                 /\ interfaces_ptr' = "NULL"
                 /\ interfaces' = <<>>
                 /\ UNCHANGED present
            ELSE /\ Return(rq, SUCCESS)
                 /\ iio_interfaces' = "live"
                 /\ num_interfaces' = 1
                 /\ interfaces_ptr' = "live"
                 /\ interfaces' = <<r>>
                 /\ present' = Append(present, r)
       ELSE IF interfaces_ptr \in {"freed", "wild"} /\ ub_traps
            THEN /\ Fault(rq)
                 /\ UNCHANGED regVars
            ELSE IF ~ok2
            THEN /\ Return(rq, -ENOMEM)
                 /\ num_interfaces' = n
                 /\ interfaces_ptr' = IF interfaces_ptr = "NULL" THEN "NULL" ELSE "freed"
                 /\ UNCHANGED <<iio_interfaces, interfaces, present>>
            ELSE /\ Return(rq, SUCCESS)
                 /\ num_interfaces' = n
                 /\ interfaces_ptr' = "live"
                 /\ interfaces' = Grow(IF interfaces_ptr \in {"live", "freed"}
                                       THEN interfaces ELSE <<>>, n, r)
                 /\ present' = Append(present, r)
                 /\ UNCHANGED iio_interfaces

Register == \E r \in Ifaces, ok1, ok2 \in BOOLEAN : iio_register(r, ok1, ok2)

(***************************************************************************)
(* iio_unregister.                                                         *)
(***************************************************************************)
RECURSIVE RemoveFirst(_, _)
RemoveFirst(s, nm) ==
    IF s = <<>> THEN <<>>
    ELSE IF Head(s) # NULL /\ Name(Head(s)) = nm THEN Tail(s)
    ELSE <<Head(s)>> \o RemoveFirst(Tail(s), nm)

HasName(s, nm) == \E i \in DOMAIN s : s[i] # NULL /\ Name(s[i]) = nm

iio_unregister(r, ok1, ok2) ==
    LET rq == Req("unregister", r, Name(r), "", FALSE, "", 0, ~(ok1 /\ ok2))
        bad == \E i \in 1..num_interfaces : BadSlot(i)
        deleted == \E i \in 1..num_interfaces :
                       ~BadSlot(i) /\ Name(interfaces[i]) = Name(r)
    IN
    /\ Running
    /\ UNCHANGED <<ub_traps, free_clobbers, scope, devVars, netVars, xmlVars,
                   initVars>>
    /\ IF ~ok1
       THEN Return(rq, FAILURE) /\ UNCHANGED regVars
       ELSE IF iio_interfaces = "NULL"
       THEN /\ IF ub_traps THEN Fault(rq) ELSE Return(rq, FAILURE)
            /\ UNCHANGED regVars
       ELSE IF num_interfaces = 0 \/ ~ok2
       THEN Return(rq, FAILURE) /\ UNCHANGED regVars
       ELSE IF ub_traps /\ (bad \/ ~deleted \/ iio_interfaces = "freed")
       THEN Fault(rq) /\ UNCHANGED regVars
       ELSE /\ Return(rq, IF deleted THEN SUCCESS ELSE FAILURE)
            /\ iio_interfaces' = "freed"
            /\ num_interfaces' = IF free_clobbers THEN 0 ELSE num_interfaces
            /\ interfaces_ptr' = IF free_clobbers THEN "wild" ELSE interfaces_ptr
            /\ interfaces' = interfaces
            /\ present' = IF deleted THEN RemoveFirst(present, Name(r)) ELSE present

Unregister ==
    \E r \in Ifaces, ok1, ok2 \in BOOLEAN : iio_unregister(r, ok1, ok2)

(***************************************************************************)
(* Bytes, words and the caller's buffer.  The host is little-endian, so    *)
(* storing bswap_constant_32(x) through a uint32_t pointer leaves x in     *)
(* memory most significant byte first.                                     *)
(***************************************************************************)
\* A 32-bit word is the sequence of its four bytes, least significant first
\* (two's complement for a negative value).
Byte(x, k) == (x \div (256 ^ k)) % 256
Word(x) == <<Byte(x, 0), Byte(x, 1), Byte(x, 2), Byte(x, 3)>>
bswap_constant_32(w) == <<w[4], w[3], w[2], w[1]>>

\* Conversion of a 32-bit word to int16_t keeps its low 16 bits.
WordToI16(w) == LET m == w[1] + 256 * w[2] IN IF m >= 32768 THEN m - 65536 ELSE m
I16(x) == WordToI16(Word(x))

\* Rounding that also pads a length already a multiple of 4.
Pad4Always(n) == ((n \div 4) + 1) * 4

Pad4(n) == IF n % 4 # 0 THEN ((n \div 4) + 1) * 4 ELSE n

BufCap == MaxAttrs * (4 + Pad4(MaxVal)) + 4
StaleByte == 10 * 16 + 10
BufAddr == 2 ^ 29                  \* where the dispatcher's callers keep their buffer
BufAddrs == {BufAddr, 2 ^ 20}      \* buffer addresses tried in the framing specification
Lens == {4, 12}

Fresh(fill) == [k \in 1..BufCap |-> fill]

\* Bytes written at offset j; a write that falls outside the buffer is dropped.
Poke(b, j, bytes) ==
    [k \in DOMAIN b |->
        IF j >= 0 /\ k - 1 >= j /\ k - 1 < j + Len(bytes) THEN bytes[k - j] ELSE b[k]]

\* *(uint32_t *)(buf + j) = w on a little-endian host.
Store32(b, j, w) == Poke(b, j, w)

\* The C string held in s: the bytes before the first NUL.
RECURSIVE CStr(_)
CStr(s) == IF s = <<>> \/ Head(s) = 0 THEN <<>> ELSE <<Head(s)>> \o CStr(Tail(s))

\* sprintf(buf + j, "%s", local_buf): the string and its terminating NUL.
sprintf_s(b, j, local_buf) == Poke(b, j, CStr(local_buf) \o <<0>>)

(***************************************************************************)
(* The driver's show and store handlers: show leaves a C string in the     *)
(* buffer it is given and returns its length (or, for a handler with a ret *)
(* field, the length it reports), or fails with a negative code; store     *)
(* returns the length it was given, or fails.                              *)
(***************************************************************************)
show_ret(a) ==
    IF a.fails THEN -EINVAL
    ELSE IF "ret" \in DOMAIN a THEN a.ret
    ELSE Len(a.val)
show_buf(a) == a.val \o <<0>>
store_ret(a, len) == IF a.fails THEN -EINVAL ELSE len

Call(kind, attr, off, len) == [kind |-> kind, attr |-> attr, off |-> off, len |-> len]
Res(st, r, c, b, o) == [st |-> st, ret |-> r, calls |-> c, buf |-> b, oob |-> o]

(***************************************************************************)
(* iio_read_all_attr / iio_write_all_attr.                                 *)
(***************************************************************************)
RECURSIVE read_all_loop(_, _, _, _, _)
read_all_loop(attributes, i, j, b, c) ==
    IF i > Len(attributes) THEN [ret |-> j, buf |-> b, calls |-> c]
    ELSE LET a == attributes[i]
             attr_length == show_ret(a)
             b1 == Store32(b, j, bswap_constant_32(Word(attr_length)))
             j1 == I16(j + 4)
             c1 == Append(c, Call("show", a.name, 0, 0))
         IN IF attr_length >= 0
            THEN read_all_loop(attributes, i + 1, I16(j1 + Pad4(attr_length)),
                               sprintf_s(b1, j1, show_buf(a)), c1)
            ELSE read_all_loop(attributes, i + 1, j1, b1, c1)

iio_read_all_attr(attributes, b) ==
    IF attributes.null THEN Res("returned", FAILURE, <<>>, b, FALSE)
    ELSE LET out == read_all_loop(attributes.list, 1, 0, b, <<>>)
         IN Res("returned", out.ret, out.calls, out.buf, FALSE)

\* The length handed to store: the byte-swapped value of the pointer buf + j
\* itself, cut to int16_t (line 385 casts the pointer, it does not load from it).
write_attr_length(b, addr, j) == WordToI16(bswap_constant_32(Word(addr + j)))

RECURSIVE write_all_loop(_, _, _, _, _, _)
write_all_loop(attributes, i, j, b, addr, c) ==
    IF i > Len(attributes) THEN c
    ELSE LET a == attributes[i]
             attr_length == write_attr_length(b, addr, j)
             j1 == I16(j + 4)
             c1 == Append(c, Call("store", a.name, j1, attr_length))
             j2 == I16(j1 + attr_length)
             j3 == IF j2 % 4 # 0 THEN I16(((j2 \div 4) + 1) * 4) ELSE j2
         IN write_all_loop(attributes, i + 1, j3, b, addr, c1)

\* An aggregate write that reports the bytes its cursor consumed.
iio_write_all_attr_consumed(attributes, b, addr, len) ==
    IF attributes.null THEN Res("returned", FAILURE, <<>>, b, FALSE)
    ELSE LET c == write_all_loop(attributes.list, 1, 0, b, addr, <<>>)
         IN Res("returned",
                IF c = <<>> THEN 0 ELSE c[Len(c)].off + Pad4(c[Len(c)].len),
                c, b, FALSE)

iio_write_all_attr(attributes, b, addr, len) ==
    IF attributes.null THEN Res("returned", FAILURE, <<>>, b, FALSE)
    ELSE Res("returned", len, write_all_loop(attributes.list, 1, 0, b, addr, <<>>), b, FALSE)

(***************************************************************************)
(* iio_get_channel_id / iio_get_attribute_id: 0-based index or an error.   *)
(***************************************************************************)
FirstIndex(S) == CHOOSE i \in S : \A k \in S : i <= k

iio_get_channel_id(channel, channels, ch_out) ==
    LET hits == {i \in DOMAIN channels :
                    channels[i].name = channel /\ channels[i].ch_out = ch_out}
    IN IF channels = <<>> THEN -EINVAL
       ELSE IF hits = {} THEN -ENOENT
       ELSE FirstIndex(hits) - 1

\* A scan that falls back to the first attribute when the name is absent.
iio_get_attribute_id_first(attr, attributes) ==
    LET hits == {i \in DOMAIN attributes : attributes[i].name = attr}
    IN IF attributes = <<>> THEN -EINVAL
       ELSE IF hits = {} THEN 0
       ELSE FirstIndex(hits) - 1

iio_get_attribute_id(attr, attributes) ==
    LET hits == {i \in DOMAIN attributes : attributes[i].name = attr}
    IN IF attributes = <<>> THEN -EINVAL
       ELSE IF hits = {} THEN -ENOENT
       ELSE FirstIndex(hits) - 1

\* The handler of attributes[attribute_id], called with the caller's buffer.
call_handler(a, b, len, is_write) ==
    IF is_write
    THEN Res("returned", store_ret(a, len), <<Call("store", a.name, 0, len)>>, b, FALSE)
    ELSE Res("returned", show_ret(a), <<Call("show", a.name, 0, 0)>>,
             IF a.fails THEN b ELSE Poke(b, 0, show_buf(a)), FALSE)

\* iio_get_attribute_id dereferences the list without a NULL check.
null_list_deref(b) ==
    IF ub_traps THEN Res("fault", 0, <<>>, b, FALSE)
    ELSE Res("returned", -ENOENT, <<>>, b, FALSE)

(***************************************************************************)
(* iio_rd_wr_channel_attribute / iio_rd_wr_attribute.                      *)
(***************************************************************************)
iio_rd_wr_channel_attribute(el, b, addr, channel, is_write) ==
    IF el.attr = ""
    THEN IF is_write
         THEN iio_write_all_attr(channel.attributes, b, addr, el.len)
         ELSE iio_read_all_attr(channel.attributes, b)
    ELSE IF channel.attributes.null THEN null_list_deref(b)
    ELSE LET attribute_id == iio_get_attribute_id(el.attr, channel.attributes.list)
         IN IF attribute_id >= 0
            THEN call_handler(channel.attributes.list[attribute_id + 1], b, el.len, is_write)
            ELSE Res("returned", -ENOENT, <<>>, b, FALSE)

\* channels[channel_id] with a negative channel_id reads in front of the array:
\* the pointer found there is garbage.  g picks what it happens to designate.
garbage_channel(channels, g) ==
    IF g \in DOMAIN channels THEN channels[g] ELSE Channel("", FALSE, <<>>)

iio_rd_wr_attribute(el, b, addr, iface, is_write, g) ==
    LET iio_device == Devices[iface]
    IN
    IF ~iio_device.has_iio THEN Res("returned", -ENOENT, <<>>, b, FALSE)
    ELSE IF el.channel = ""
    THEN IF el.attr = ""
         THEN IF is_write
              THEN iio_write_all_attr(iio_device.attributes, b, addr, el.len)
              ELSE iio_read_all_attr(iio_device.attributes, b)
         ELSE IF iio_device.attributes.null THEN null_list_deref(b)
         ELSE LET attribute_id == iio_get_attribute_id(el.attr, iio_device.attributes.list)
              IN IF attribute_id < 0
                 THEN Res("returned", -ENOENT, <<>>, b, FALSE)
                 ELSE call_handler(iio_device.attributes.list[attribute_id + 1],
                                   b, el.len, is_write)
    ELSE LET channel_id == iio_get_channel_id(el.channel, iio_device.channels, el.ch_out)
         IN IF channel_id >= 0
            THEN iio_rd_wr_channel_attribute(el, b, addr,
                                             iio_device.channels[channel_id + 1], is_write)
            ELSE IF ub_traps THEN Res("fault", 0, <<>>, b, TRUE)
            ELSE LET r == iio_rd_wr_channel_attribute(
                              el, b, addr, garbage_channel(iio_device.channels, g), is_write)
                 IN Res(r.st, r.ret, r.calls, r.buf, TRUE)

(***************************************************************************)
(* The four attribute entry points.  unsupported is what the entry point   *)
(* returns when iio_supported_dev fails, no_iface what its second check    *)
(* returns (FAILURE, FAILURE, none and -ENOENT respectively).              *)
(***************************************************************************)
attr_entry(el, b, addr, is_write, unsupported, no_iface, g) ==
    LET iface == iio_get_interface(el.device)
    IN
    IF iface = TRAP THEN Res("fault", 0, <<>>, b, FALSE)
    ELSE IF ~iio_supported_dev(el.device) THEN Res("returned", unsupported, <<>>, b, FALSE)
    ELSE IF iface = NULL
    THEN IF no_iface = 0
         THEN Res("fault", 0, <<>>, b, FALSE)
         ELSE Res("returned", no_iface, <<>>, b, FALSE)
    ELSE iio_rd_wr_attribute(el, b, addr, iface, is_write, g)

Finish(el, res) ==
    /\ Running
    /\ req' = el
    /\ status' = res.st
    /\ ret' = res.ret
    /\ calls' = res.calls
    /\ oob' = res.oob
    /\ buf' = res.buf
    /\ UNCHANGED <<regVars, ub_traps, free_clobbers, scope, devVars, netVars, xmlVars,
                   initVars>>

iio_read_attr ==
    \E device \in DevNames, attr \in AttrNames :
        LET el == Req("read_attr", NULL, device, "", FALSE, attr, BufCap, FALSE)
        IN Finish(el, attr_entry(el, Fresh(StaleByte), 0, FALSE, FAILURE, FAILURE, 0))

iio_write_attr ==
    \E device \in DevNames, attr \in AttrNames :
        LET el == Req("write_attr", NULL, device, "", FALSE, attr, BufCap, FALSE)
        IN Finish(el, attr_entry(el, Fresh(StaleByte), BufAddr, TRUE, -ENODEV, FAILURE, 0))

iio_ch_read_attr ==
    \E device \in DevNames, channel \in ChNames, ch_out \in BOOLEAN,
       attr \in AttrNames, g \in GarbageChoices :
        LET el == Req("ch_read_attr", NULL, device, channel, ch_out, attr, BufCap, FALSE)
        IN Finish(el, attr_entry(el, Fresh(StaleByte), 0, FALSE, FAILURE, 0, g))

iio_ch_write_attr ==
    \E device \in DevNames, channel \in ChNames, ch_out \in BOOLEAN,
       attr \in AttrNames, g \in GarbageChoices :
        LET el == Req("ch_write_attr", NULL, device, channel, ch_out, attr, BufCap, FALSE)
        IN Finish(el, attr_entry(el, Fresh(StaleByte), BufAddr, TRUE, -ENODEV, -ENOENT, g))

(***************************************************************************)
(* iio_get_channel_number: the number a channel name carries.  A name is   *)
(* the sequence of its characters; strtol reads the digits that start at   *)
(* p and leaves p behind them.  iio_rd_wr_channel_attribute hands the      *)
(* number to every handler it calls, in channel_info.                      *)
(***************************************************************************)
MaxName == 4
NameChars == {48, 49, 50, 118}
Names == UNION {[1..n -> NameChars] : n \in 0..MaxName}

isdigit(c) == c >= 48 /\ c <= 57

RECURSIVE strtol(_, _, _)
strtol(ch, p, acc) ==
    IF p <= Len(ch) /\ isdigit(ch[p])
    THEN strtol(ch, p + 1, 10 * acc + (ch[p] - 48))
    ELSE [val |-> acc, endptr |-> p]

RECURSIVE channel_number_loop(_, _, _)
channel_number_loop(ch, p, ch_num) ==
    IF p > Len(ch) THEN ch_num
    ELSE IF isdigit(ch[p])
    THEN LET r == strtol(ch, p, 0) IN channel_number_loop(ch, r.endptr, r.val)
    ELSE channel_number_loop(ch, p + 1, ch_num)

\* A scan that returns at the end of the first number it meets.
RECURSIVE iio_get_channel_number_first(_)
iio_get_channel_number_first(ch) ==
    IF ch = <<>> THEN FAILURE
    ELSE IF isdigit(Head(ch)) THEN strtol(ch, 1, 0).val
    ELSE iio_get_channel_number_first(Tail(ch))

iio_get_channel_number(ch) == channel_number_loop(ch, 1, FAILURE)

\* The handler calls of a channel operation, each with the channel_info built
\* from the channel name.
with_channel_info(c, ch_num, ch_out) ==
    [i \in DOMAIN c |-> [kind |-> c[i].kind, attr |-> c[i].attr, off |-> c[i].off,
                         len |-> c[i].len, ch_num |-> ch_num, ch_out |-> ch_out]]

NumberedChannel(name, ch_out) ==
    Channel(name, ch_out, <<Attr("raw", <<50, 53>>, FALSE), Attr("scale", <<>>, TRUE)>>)

\* A read or write on the channel the previous request named.
channel_attribute ==
    \E attr \in {"", "raw", "scale", "gain"}, is_write \in BOOLEAN :
        LET el == Req(IF is_write THEN "ch_write" ELSE "ch_read", NULL, "adc",
                      req.channel, req.ch_out, attr, 4, FALSE)
            ch_num == iio_get_channel_number(el.channel)
            res == iio_rd_wr_channel_attribute(el, Fresh(0), BufAddr,
                                               NumberedChannel(el.channel, el.ch_out),
                                               is_write)
        IN /\ req' = el
           /\ status' = res.st
           /\ ret' = res.ret
           /\ calls' = with_channel_info(res.calls, ch_num, el.ch_out)
           /\ oob' = res.oob
           /\ buf' = res.buf
           /\ UNCHANGED <<regVars, ub_traps, free_clobbers, scope, devVars, netVars,
                          xmlVars, initVars>>

(***************************************************************************)
(* Aggregate read and write applied to an attribute list chosen at the     *)
(* start: attribute i shows a string of 0..MaxVal digits, or three bytes    *)
(* of which the second is zero, or fails.                                  *)
(***************************************************************************)
FrameNames == <<"raw", "scale", "offset", "gain", "rate", "phase">>
FrameVal(i, n) == [k \in 1..n |-> 48 + ((3 * i + k) % 10)]

BinaryVal == <<49, 0, 50>>

FrameAttrs(i) ==
    {Attr(FrameNames[i], FrameVal(i, n), FALSE) : n \in 0..MaxVal}
        \cup {Attr(FrameNames[i], BinaryVal, FALSE)}
        \cup {Attr(FrameNames[i], <<>>, TRUE)}

RECURSIVE FrameScopes(_)
FrameScopes(n) ==
    IF n = 0 THEN {<<>>}
    ELSE LET shorter == FrameScopes(n - 1)
         IN shorter \cup {Append(s, a) : s \in {t \in shorter : Len(t) = n - 1},
                                          a \in FrameAttrs(n)}

FrameFinish(el, res) ==
    /\ req' = el
    /\ status' = res.st
    /\ ret' = res.ret
    /\ calls' = res.calls
    /\ oob' = res.oob
    /\ buf' = res.buf
    /\ UNCHANGED <<regVars, ub_traps, free_clobbers, scope, devVars, netVars, xmlVars,
                   initVars>>

FrameRead ==
    LET el == Req("read_all", NULL, "", "", FALSE, "", BufCap, FALSE)
    IN FrameFinish(el, iio_read_all_attr(AttrList(scope), buf))

FrameWrite ==
    \E len \in Lens, addr \in BufAddrs :
        LET el == Req("write_all", NULL, "", "", FALSE, "", len, FALSE)
        IN FrameFinish(el, iio_write_all_attr(AttrList(scope), buf, addr, len))

(***************************************************************************)
(* Aggregate read with show handlers that report any length: a handler is  *)
(* given the caller's len as its capacity and returns an ssize_t of its    *)
(* own choosing, here a length of up to MaxShown that need not be that of  *)
(* the text it leaves.  buf is the start of the caller's buffer.           *)
(***************************************************************************)
MaxLong == 3
MaxShown == 32764
ShownLens == {0, 1, 6, 252, MaxShown \div 2 - 2, MaxShown}
Reporting(r, f) == [name |-> "raw", val |-> <<55>>, fails |-> f, ret |-> r]
LongAttrs == {Reporting(r, FALSE) : r \in ShownLens} \cup {Reporting(0, TRUE)}
LongScopes == UNION {[1..n -> LongAttrs] : n \in 0..MaxLong}

(***************************************************************************)
(* Buffer operations: iio_open_dev, iio_close_dev, iio_get_mask and the    *)
(* four transfers.  A 32-bit mask is the set of the indices of its 1 bits. *)
(***************************************************************************)
AllOnes == 0..31
Masks == {{}, {0}, 0..3, 0..4, AllOnes}
NumChs == <<0, 1, 4, 32>>
BytesCount == 16

ShiftRight(m, k) == {b - k : b \in {x \in m : x >= k}}

\* 0xFFFFFFFF >> (32 - num_ch).  A shift count outside 0..31 is undefined for
\* a 32-bit operand: the hardware either shifts every bit out or uses the
\* count modulo 32.
ShiftOutcomes(n) ==
    IF (32 - n) \in 0..31 THEN {ShiftRight(AllOnes, 32 - n)}
    ELSE {{}, ShiftRight(AllOnes, (32 - n) % 32)}

DevReq(op, device, mask) ==
    [op |-> op, iface |-> NULL, device |-> device, channel |-> "", ch_out |-> FALSE,
     attr |-> "", len |-> BytesCount, oom |-> FALSE, mask |-> mask]

DevCall(kind, iface, mask) == [kind |-> kind, iface |-> iface, mask |-> mask]

DevFinish(rq, st, r, c, out, o) ==
    /\ Running
    /\ req' = rq
    /\ status' = st
    /\ ret' = r
    /\ calls' = c
    /\ oob' = o
    /\ buf' = out
    /\ UNCHANGED <<regVars, ub_traps, free_clobbers, scope, num_ch, netVars, xmlVars,
                   initVars>>

\* A range test that lets the first bit above the range through.
mask_out_of_range_highest(mask, range) ==
    \E b \in mask : \A x \in range : b > x + 1

\* if (mask & ~ch_mask)
mask_out_of_range(mask, range) == mask \ range # {}

iio_open_dev ==
    \E device \in DevNames, mask \in Masks :
        LET rq == DevReq("open", device, mask)
            iface == iio_get_interface(device)
        IN IF iface = TRAP
           THEN DevFinish(rq, "fault", 0, <<>>, <<>>, TRUE) /\ UNCHANGED ch_mask
           ELSE IF ~iio_supported_dev(device)
           THEN DevFinish(rq, "returned", -ENODEV, <<>>, <<>>, FALSE) /\ UNCHANGED ch_mask
           ELSE \E range \in ShiftOutcomes(num_ch[iface]) :
                   IF mask_out_of_range(mask, range)
                   THEN /\ DevFinish(rq, "returned", -ENOENT, <<>>, <<>>, FALSE)
                        /\ UNCHANGED ch_mask
                   ELSE /\ DevFinish(rq, "returned", SUCCESS, <<>>, <<>>, FALSE)
                        /\ ch_mask' = [ch_mask EXCEPT ![iface] = mask]

\* A close that leaves the mask as it was.
closed_mask_kept(old) == old

\* iface->ch_mask = 0
closed_mask(old) == {}

iio_close_dev ==
    \E device \in DevNames :
        LET rq == DevReq("close", device, {})
            iface == iio_get_interface(device)
        IN IF iface = TRAP
           THEN DevFinish(rq, "fault", 0, <<>>, <<>>, TRUE) /\ UNCHANGED ch_mask
           ELSE IF ~iio_supported_dev(device)
           THEN DevFinish(rq, "returned", FAILURE, <<>>, <<>>, FALSE) /\ UNCHANGED ch_mask
           ELSE /\ DevFinish(rq, "returned", SUCCESS, <<>>, <<>>, FALSE)
                /\ ch_mask' = [ch_mask EXCEPT ![iface] = closed_mask(ch_mask[iface])]

\* *mask is left in buf.
iio_get_mask ==
    \E device \in DevNames :
        LET rq == DevReq("get_mask", device, {})
            iface == iio_get_interface(device)
        IN /\ UNCHANGED ch_mask
           /\ IF iface = TRAP
              THEN DevFinish(rq, "fault", 0, <<>>, <<>>, TRUE)
              ELSE IF ~iio_supported_dev(device)
              THEN DevFinish(rq, "returned", -ENODEV, <<>>, <<>>, FALSE)
              ELSE DevFinish(rq, "returned", SUCCESS, <<>>, <<ch_mask[iface]>>, FALSE)

\* The common body of the four transfers: no supported-device test, the
\* callback pointer is read from whatever iio_get_interface returned.  Read
\* through a NULL record the pointer is whatever memory holds there: NULL, or
\* something the processor then jumps to.
transfer(op, callback, device, g) ==
    LET rq == DevReq(op, device, {})
        iio_interface == iio_get_interface(device)
    IN /\ UNCHANGED ch_mask
       /\ IF iio_interface = TRAP
          THEN DevFinish(rq, "fault", 0, <<>>, <<>>, TRUE)
          ELSE IF iio_interface = NULL
          THEN IF ub_traps
               THEN DevFinish(rq, "fault", 0, <<>>, <<>>, TRUE)
               ELSE IF g = 0
               THEN DevFinish(rq, "returned", -ENOENT, <<>>, <<>>, TRUE)
               ELSE DevFinish(rq, "fault", 0, <<DevCall("wild", NULL, {})>>, <<>>, TRUE)
          ELSE IF callback \in Devices[iio_interface].callbacks
          THEN DevFinish(rq, "returned", BytesCount,
                         <<DevCall(callback, iio_interface, ch_mask[iio_interface])>>,
                         <<>>, FALSE)
          ELSE DevFinish(rq, "returned", -ENOENT, <<>>, <<>>, FALSE)

iio_transfer_dev_to_mem ==
    \E device \in DevNames, g \in GarbageChoices :
        transfer("transfer_dev_to_mem", "transfer_dev_to_mem", device, g)

iio_read_dev ==
    \E device \in DevNames, g \in GarbageChoices :
        transfer("read_dev", "read_data", device, g)

iio_transfer_mem_to_dev ==
    \E device \in DevNames, g \in GarbageChoices :
        transfer("transfer_mem_to_dev", "transfer_mem_to_dev", device, g)

iio_write_dev ==
    \E device \in DevNames, g \in GarbageChoices :
        transfer("write_dev", "write_data", device, g)

(***************************************************************************)
(* The network link: iio_step, network_read with _get_next_socket, and     *)
(* iio_phy_write.  Connections are numbered in the order socket_accept     *)
(* returns them.  The circular buffer holds MAX_SOCKET_TO_HANDLE pointers; *)
(* a write that does not fit fails and stores nothing.                     *)
(***************************************************************************)
MAX_SOCKET_TO_HANDLE == 4
DEAD == -1
MaxClients == 5
MaxServed == 6
Sockets == 1..MaxClients
RecvOutcomes == {"data", "notconn", "error"}

cb_write(q, x) ==
    IF Len(q) < MAX_SOCKET_TO_HANDLE
    THEN [ret |-> SUCCESS, q |-> Append(q, x)]
    ELSE [ret |-> FAILURE, q |-> q]

cb_read(q) ==
    IF q = <<>> THEN [ret |-> FAILURE, q |-> q, sock |-> NULL]
    ELSE [ret |-> SUCCESS, q |-> Tail(q), sock |-> Head(q)]

cb_size(q) == Len(q)

\* A push that puts the connection at the head of the queue.
_push_sock_front(q, sock) ==
    IF Len(q) < MAX_SOCKET_TO_HANDLE
    THEN [ret |-> SUCCESS, q |-> <<sock>> \o q]
    ELSE [ret |-> FAILURE, q |-> q]

\* A push into a queue that grows without limit.
_push_sock_unbounded(q, sock) == [ret |-> SUCCESS, q |-> Append(q, sock)]

\* A disconnected connection that is left in the current slot.
released_sock_kept(sock) == sock

\* g_desc->current_sock = (void *)-1 after socket_remove.
released_sock(sock) == DEAD

\* A pop that reads the head of the queue and leaves it there.
_pop_sock_peek(q) ==
    IF q = <<>> THEN [ret |-> FAILURE, q |-> q, sock |-> NULL]
    ELSE [ret |-> SUCCESS, q |-> q, sock |-> Head(q)]

_push_sock(q, sock) == cb_write(q, sock)
_pop_sock(q) == cb_read(q)
_nb_active_sockets(q) == cb_size(q)

\* The do-while of _get_next_socket on queue q with w clients waiting and a
\* connections accepted so far: accept and queue until socket_accept says
\* -EAGAIN; a push that fails ends the function with the connection just
\* accepted held by nobody.
RECURSIVE accept_loop(_, _, _)
accept_loop(q, w, a) ==
    IF w = 0 THEN [ret |-> SUCCESS, q |-> q, w |-> w, a |-> a]
    ELSE LET pushed == _push_sock(q, a + 1)
         IN IF pushed.ret < 0
            THEN [ret |-> pushed.ret, q |-> q, w |-> w - 1, a |-> a + 1]
            ELSE accept_loop(pushed.q, w - 1, a + 1)

\* _get_next_socket; socket_accept itself fails when accept_fails.
_get_next_socket(accept_fails) ==
    IF accept_fails
    THEN [ret |-> FAILURE, q |-> sockets, w |-> waiting, a |-> accepted, cur |-> current_sock]
    ELSE LET got == accept_loop(sockets, waiting, accepted)
             popped == _pop_sock(got.q)
         IN IF got.ret < 0
            THEN [ret |-> got.ret, q |-> got.q, w |-> got.w, a |-> got.a, cur |-> current_sock]
            ELSE IF popped.ret < 0
            THEN [ret |-> popped.ret, q |-> got.q, w |-> got.w, a |-> got.a, cur |-> NULL]
            ELSE [ret |-> SUCCESS, q |-> popped.q, w |-> got.w, a |-> got.a, cur |-> popped.sock]

NetReq(op) ==
    [op |-> op, iface |-> NULL, device |-> "", channel |-> "", ch_out |-> FALSE,
     attr |-> "", len |-> BytesCount, oom |-> FALSE]

NetCall(kind, sock) == [kind |-> kind, sock |-> sock]

\* A socket_recv call: what it returned ("data" with n bytes, or a failure).
RecvCall(sock, outcome, n) == [kind |-> "socket_recv", sock |-> sock,
                               outcome |-> outcome, n |-> n]

\* What the successive socket_recv calls of one network_read return: the
\* request whole, the request in two pieces, or a failure at once or after
\* the first piece.
FirstPiece == 3
Received(n) == [outcome |-> "data", n |-> n]
Failed(outcome) == [outcome |-> outcome, n |-> 0]
RecvPlans ==
    {<<Received(BytesCount)>>, <<Received(FirstPiece), Received(BytesCount - FirstPiece)>>}
        \cup {<<Failed(o)>> : o \in RecvOutcomes \ {"data"}}
        \cup {<<Received(FirstPiece), Failed(o)>> : o \in RecvOutcomes \ {"data"}}

SENTINEL == 42                     \* '*'
DataByte == 65
Incoming(n) == [k \in 1..n |-> DataByte]

\* The do-while of network_read: socket_recv into data + i until len bytes
\* are there or a call fails; a failure stores '*' in data[0].  recvs lists
\* what the calls made returned.
RECURSIVE recv_loop(_, _, _, _, _, _)
recv_loop(plan, k, i, len, data, recvs) ==
    LET r == plan[k]
    IN IF r.outcome # "data"
       THEN [outcome |-> r.outcome, i |-> i, data |-> Poke(data, 0, <<SENTINEL>>),
             recvs |-> Append(recvs, r)]
       ELSE IF i + r.n < len
       THEN recv_loop(plan, k + 1, i + r.n, len, Poke(data, i, Incoming(r.n)),
                      Append(recvs, r))
       ELSE [outcome |-> r.outcome, i |-> i + r.n, data |-> Poke(data, i, Incoming(r.n)),
             recvs |-> Append(recvs, r)]

\* The loop run on a request of BytesCount bytes, for every plan.
Reads ==
    [plan \in RecvPlans |->
        recv_loop(plan, 1, 0, BytesCount, [k \in 1..BytesCount |-> StaleByte], <<>>)]

\* The socket_recv calls of a read, made on connection sock.
recv_calls(sock, recvs) ==
    [k \in DOMAIN recvs |-> RecvCall(sock, recvs[k].outcome, recvs[k].n)]

\* A connection released after any failed socket_recv.
after_recv_released(outcome, sock) ==
    IF outcome # "data" THEN released_sock(sock) ELSE sock

\* g_desc->current_sock after the loop: released only on -ENOTCONN.
after_recv(outcome, sock) ==
    IF outcome = "notconn" THEN released_sock(sock) ELSE sock

\* A dispatch step that leaves the connection in the current slot.
stepped_sock_kept(sock) == sock

\* desc->current_sock = NULL in iio_step.
stepped_sock(sock) == NULL

NetFinishData(op, st, r, c, b) ==
    /\ req' = NetReq(op)
    /\ status' = st
    /\ ret' = r
    /\ calls' = c
    /\ oob' = FALSE
    /\ buf' = b
    /\ UNCHANGED <<regVars, ub_traps, free_clobbers, scope, devVars, xmlVars,
                   initVars>>

NetFinish(op, r, c) == NetFinishData(op, "returned", r, c, <<>>)

\* A client connects to the listening server.
Connect ==
    /\ accepted + waiting < MaxClients
    /\ waiting' = waiting + 1
    /\ UNCHANGED <<regVars, ub_traps, free_clobbers, scope, devVars, xmlVars, initVars,
                   req, status, ret, calls, oob, buf,
                   sockets, current_sock, accepted, removed, served, joined, pc>>

\* iio_step up to its call of tinyiiod_read_command.
iio_step ==
    /\ pc = "idle"
    /\ UNCHANGED <<waiting, accepted, removed, served, joined>>
    /\ IF current_sock # NULL /\ current_sock # DEAD
       THEN LET pushed == _push_sock(sockets, current_sock)
            IN IF pushed.ret < 0
               THEN /\ NetFinish("iio_step", pushed.ret, <<>>)
                    /\ UNCHANGED <<sockets, current_sock, pc>>
               ELSE /\ NetFinish("iio_step", SUCCESS, <<>>)
                    /\ sockets' = pushed.q
                    /\ current_sock' = stepped_sock(current_sock)
                    /\ pc' = "command"
       ELSE /\ NetFinish("iio_step", SUCCESS, <<>>)
            /\ current_sock' = stepped_sock(current_sock)
            /\ pc' = "command"
            /\ UNCHANGED sockets

\* tinyiiod_read_command returns to iio_step, which returns.
read_command_done ==
    /\ pc = "command"
    /\ pc' = "idle"
    /\ NetFinish("read_command", SUCCESS, <<>>)
    /\ UNCHANGED <<sockets, current_sock, waiting, accepted, removed, served, joined>>

\* network_read, called by tinyiiod_read_command through iio_phy_read.  With
\* no connection queued and no client waiting _get_next_socket spins in its
\* loop (pc = "accept"): the call goes on when a client has connected or
\* socket_accept fails.
network_read ==
    /\ pc \in {"command", "accept"}
    /\ IF current_sock = DEAD
       THEN /\ NetFinish("network_read", 0 - 1, <<>>)
            /\ UNCHANGED <<sockets, current_sock, waiting, accepted, removed, served,
                           joined, pc>>
       ELSE \E accept_fails \in BOOLEAN, plan \in RecvPlans :
            /\ current_sock = NULL => Len(served) < MaxServed
            /\ IF current_sock = NULL /\ ~accept_fails /\ waiting = 0 /\ sockets = <<>>
               THEN /\ pc = "command"
                    /\ pc' = "accept"
                    /\ NetFinishData("network_read", "blocked", 0, <<>>, <<>>)
                    /\ UNCHANGED <<sockets, current_sock, waiting, accepted, removed,
                                   served, joined>>
               ELSE LET next == IF current_sock = NULL
                            THEN _get_next_socket(accept_fails)
                            ELSE [ret |-> SUCCESS, q |-> sockets, w |-> waiting,
                                  a |-> accepted, cur |-> current_sock]
                    got == Reads[plan]
                    received == recv_calls(next.cur, got.recvs)
                IN /\ pc' = "command"
                   /\ sockets' = next.q
                   /\ waiting' = next.w
                   /\ accepted' = next.a
                   /\ joined' = [s \in Sockets |->
                                    IF s > accepted /\ s <= next.a THEN Len(served) ELSE joined[s]]
                   /\ IF next.ret < 0
                      THEN /\ NetFinish("network_read", next.ret, <<>>)
                           /\ current_sock' = next.cur
                           /\ UNCHANGED <<removed, served>>
                      ELSE /\ served' = IF current_sock = NULL THEN Append(served, next.cur)
                                        ELSE served
                           /\ current_sock' = after_recv(got.outcome, next.cur)
                           /\ IF got.outcome = "notconn"
                              THEN /\ removed' = [removed EXCEPT ![next.cur] = @ + 1]
                                   /\ NetFinishData("network_read", "returned", got.i,
                                                    Append(received,
                                                           NetCall("socket_remove", next.cur)),
                                                    got.data)
                              ELSE /\ UNCHANGED removed
                                   /\ NetFinishData("network_read", "returned", got.i,
                                                    received, got.data)

\* iio_phy_write on the network link, for a command read from a live connection.
iio_phy_write ==
    /\ pc = "command"
    /\ current_sock # NULL
    /\ current_sock # DEAD
    /\ NetFinish("iio_phy_write", BytesCount, <<NetCall("socket_send", current_sock)>>)
    /\ UNCHANGED netVars

(***************************************************************************)
(* iio_get_xml.  The document is the sequence of its parts: the header,    *)
(* the fragment of each interface (named by the interface) and the closing *)
(* tag.  fail_at numbers the step that fails: 1 the calloc, 2i the get_xml *)
(* callback of interface i, 2i + 1 the realloc that follows it, and the    *)
(* step after the last interface the final realloc; 0 means none.          *)
(***************************************************************************)
XmlReq(fail_at, no_out) ==
    [op |-> "get_xml", iface |-> NULL, device |-> "", channel |-> "", ch_out |-> FALSE,
     attr |-> "", len |-> 0, oom |-> fail_at # 0, fail_at |-> fail_at, no_out |-> no_out]

\* free(p): releases a block, does nothing for NULL.
free(heap, p) ==
    IF p = "live" THEN [live |-> heap.live - 1, freed |-> heap.freed + 1] ELSE heap

\* xml after a realloc that failed, had its result been assigned to xml.
xml_after_failed_realloc_lost(xml) == "NULL"

\* xml after a realloc that failed: the result went to tmp_xml2, xml is kept.
xml_after_failed_realloc(xml) == xml

XmlRes(r, doc, heap, written) == [ret |-> r, doc |-> doc, heap |-> heap, written |-> written]

\* The for loop from interface i on, then the closing tag.
RECURSIVE xml_loop(_, _, _, _)
xml_loop(i, fail_at, doc, heap) ==
    IF i > num_interfaces
    THEN IF fail_at = 2 * num_interfaces + 2
         THEN XmlRes(FAILURE, <<>>, free(heap, xml_after_failed_realloc("live")), FALSE)
         ELSE XmlRes(SUCCESS, doc \o <<"header_end">>, heap, TRUE)
    ELSE IF fail_at = 2 * i
    THEN XmlRes(FAILURE, <<>>, free(heap, "live"), FALSE)
    ELSE IF fail_at = 2 * i + 1
    THEN XmlRes(FAILURE, <<>>, free(heap, xml_after_failed_realloc("live")), FALSE)
    ELSE xml_loop(i + 1, fail_at, Append(doc, interfaces[i]), heap)

\* The registry as the loop reads it: every slot it visits holds a record.
registry_readable ==
    /\ iio_interfaces # "NULL"
    /\ \A i \in 1..num_interfaces : ~BadSlot(i)

iio_get_xml ==
    \E fail_at \in 0..(2 * MaxReg + 2), no_out \in BOOLEAN :
        LET rq == XmlReq(fail_at, no_out)
            res == xml_loop(1, fail_at, <<"header">>, [live |-> 1, freed |-> 0])
        IN /\ Running
           /\ req' = rq
           /\ calls' = <<>>
           /\ buf' = <<>>
           /\ UNCHANGED <<regVars, ub_traps, free_clobbers, scope, devVars, netVars,
                          initVars>>
           /\ IF no_out \/ fail_at = 1
              THEN /\ status' = "returned"
                   /\ ret' = FAILURE
                   /\ oob' = FALSE
                   /\ xml_heap' = [live |-> 0, freed |-> 0]
                   /\ UNCHANGED outxml
              ELSE IF ~registry_readable
              THEN /\ status' = "fault"
                   /\ ret' = 0
                   /\ oob' = TRUE
                   /\ xml_heap' = [live |-> 1, freed |-> 0]
                   /\ UNCHANGED outxml
              ELSE /\ status' = "returned"
                   /\ ret' = res.ret
                   /\ oob' = FALSE
                   /\ xml_heap' = res.heap
                   /\ outxml' = IF res.written THEN res.doc ELSE outxml

(***************************************************************************)
(* iio_init.  calls records what the call acquires and releases, in order. *)
(* fail_at names the step that fails: the two callocs, uart_init,          *)
(* socket_init, socket_bind, socket_listen, cb_init, list_init or          *)
(* tinyiiod_create; a step that fails acquires nothing, and a failed       *)
(* cb_init leaves ldesc->sockets NULL.                                     *)
(***************************************************************************)
MaxInits == 3
PhyTypes == {"USE_UART", "USE_NETWORK", "other"}
FailPoints == {"none", "ops", "ldesc", "uart_init", "socket_init", "socket_bind",
               "socket_listen", "cb_init", "list_init", "tinyiiod_create"}

InitReq(phy_type, fail_at, no_param) ==
    [op |-> "iio_init", iface |-> NULL, device |-> "", channel |-> "", ch_out |-> FALSE,
     attr |-> "", len |-> 0, oom |-> fail_at \in {"ops", "ldesc"},
     phy_type |-> phy_type, fail_at |-> fail_at, no_param |-> no_param]

Acquire(res) == [kind |-> "acquire", res |-> res]
Release(res) == [kind |-> "release", res |-> res]
InitRes(r, events, set) == [ret |-> r, events |-> events, set |-> set]
Link(label, events, has_sockets) == [label |-> label, events |-> events, sockets |-> has_sockets]

\* The labels at the end of iio_init.
free_ops == <<Release("ops")>>
free_desc == <<Release("ldesc")>> \o free_ops
free_pylink(phy_type, has_sockets) ==
    (IF phy_type = "USE_UART" THEN <<Release("uart_desc")>>
     ELSE <<Release("server")>> \o (IF has_sockets THEN <<Release("sockets")>> ELSE <<>>))
        \o free_desc
free_list(phy_type, has_sockets) ==
    <<Release("interfaces_list")>> \o free_pylink(phy_type, has_sockets)

\* The transport: what it acquires and the label a failure jumps to.
phy_init(phy_type, fail_at) ==
    IF phy_type = "USE_UART"
    THEN IF fail_at = "uart_init" THEN Link("free_desc", <<>>, FALSE)
         ELSE Link("none", <<Acquire("uart_desc")>>, FALSE)
    ELSE IF phy_type = "USE_NETWORK"
    THEN IF fail_at = "socket_init" THEN Link("free_desc", <<>>, FALSE)
         ELSE IF fail_at \in {"socket_bind", "socket_listen", "cb_init"}
         THEN Link("free_pylink", <<Acquire("server")>>, FALSE)
         ELSE Link("none", <<Acquire("server"), Acquire("sockets")>>, TRUE)
    ELSE Link("free_desc", <<>>, FALSE)

iio_init_run(phy_type, fail_at) ==
    IF fail_at = "ops" THEN InitRes(FAILURE, <<>>, FALSE)
    ELSE IF fail_at = "ldesc" THEN InitRes(FAILURE, <<Acquire("ops")>> \o free_ops, FALSE)
    ELSE LET link == phy_init(phy_type, fail_at)
             linked == <<Acquire("ops"), Acquire("ldesc")>> \o link.events
             listed == Append(linked, Acquire("interfaces_list"))
         IN IF link.label = "free_desc"
            THEN InitRes(FAILURE, linked \o free_desc, FALSE)
            ELSE IF link.label = "free_pylink" \/ fail_at = "list_init"
            THEN InitRes(FAILURE, linked \o free_pylink(phy_type, link.sockets), FALSE)
            ELSE IF fail_at = "tinyiiod_create"
            THEN InitRes(FAILURE, listed \o free_list(phy_type, link.sockets), FALSE)
            ELSE InitRes(SUCCESS, Append(listed, Acquire("iiod")), TRUE)

\* iio_init; a call that succeeds creates descriptor g_desc + 1.
iio_init ==
    \E phy_type \in PhyTypes, fail_at \in FailPoints, no_param \in BOOLEAN :
        LET res == IF no_param THEN InitRes(-EINVAL, <<>>, FALSE)
                   ELSE iio_init_run(phy_type, fail_at)
        IN /\ g_desc < MaxInits
           /\ req' = InitReq(phy_type, fail_at, no_param)
           /\ status' = "returned"
           /\ ret' = res.ret
           /\ calls' = res.events
           /\ oob' = FALSE
           /\ buf' = <<>>
           /\ desc' = IF res.set THEN g_desc + 1 ELSE desc
           /\ g_desc' = IF res.set THEN g_desc + 1 ELSE g_desc
           /\ UNCHANGED <<regVars, ub_traps, free_clobbers, scope, devVars, netVars,
                          xmlVars>>

(***************************************************************************)
(* Specifications.  Spec is the registry alone.  SpecAttr adds the four    *)
(* attribute entry points and explores them on every registry that         *)
(* register/unregister calls produce from a registry whose pointers are    *)
(* still valid.  SpecFrame is the framing of aggregate reads and writes.   *)
(***************************************************************************)
InitReg ==
    /\ iio_interfaces = "NULL"
    /\ num_interfaces = 0
    /\ interfaces_ptr = "NULL"
    /\ interfaces = <<>>
    /\ present = <<>>

InitCall ==
    /\ req = NoReq
    /\ status = "idle"
    /\ ret = 0
    /\ calls = <<>>
    /\ oob = FALSE

\* The network link after iio_init: nothing queued, nobody connected.
InitSockets ==
    /\ sockets = <<>>
    /\ current_sock = NULL
    /\ waiting = 0
    /\ accepted = 0
    /\ removed = [s \in Sockets |-> 0]
    /\ served = <<>>
    /\ joined = [s \in Sockets |-> 0]
    /\ pc = "idle"
    /\ outxml = <<>>
    /\ xml_heap = [live |-> 0, freed |-> 0]

\* No descriptor yet: iio_init has not succeeded.
InitDesc ==
    /\ g_desc = NULL
    /\ desc = NULL

\* Channel counts as the drivers declare them and all channels closed.
InitMask ==
    /\ ch_mask = [r \in Ifaces |-> {}]
    /\ num_ch = [r \in Ifaces |-> Len(Devices[r].channels)]

Init ==
    /\ InitReg
    /\ InitCall
    /\ InitMask
    /\ InitSockets
    /\ InitDesc
    /\ ub_traps \in BOOLEAN
    /\ free_clobbers \in BOOLEAN
    /\ buf = <<>>
    /\ scope = <<>>

Next ==
    \/ Register
    \/ Unregister

Spec == Init /\ [][Next]_vars

PointersValid == iio_interfaces # "freed" /\ interfaces_ptr \notin {"freed", "wild"}

NextAttr ==
    \/ PointersValid /\ Register
    \/ PointersValid /\ Unregister
    \/ iio_read_attr
    \/ iio_write_attr
    \/ iio_ch_read_attr
    \/ iio_ch_write_attr

SpecAttr == Init /\ [][NextAttr]_vars

InitFrame ==
    /\ InitReg
    /\ InitCall
    /\ InitMask
    /\ InitSockets
    /\ InitDesc
    /\ ub_traps = FALSE
    /\ free_clobbers = FALSE
    /\ scope \in FrameScopes(MaxAttrs)
    /\ \E fill \in {0, StaleByte} : buf = Fresh(fill)

NextFrame ==
    \/ FrameRead
    \/ FrameWrite

SpecFrame == InitFrame /\ [][NextFrame]_vars

\* The buffer operations on registries built by iio_register, for devices
\* declaring 0, 1, 4 or 32 channels.
InitDev ==
    /\ InitReg
    /\ InitCall
    /\ ub_traps \in BOOLEAN
    /\ free_clobbers = FALSE
    /\ buf = <<>>
    /\ scope = <<>>
    /\ ch_mask = [r \in Ifaces |-> {}]
    /\ InitSockets
    /\ InitDesc
    /\ \E k \in 0..3 : num_ch = [r \in Ifaces |-> NumChs[((r + k) % 4) + 1]]

NextDev ==
    \/ PointersValid /\ Register
    \/ iio_open_dev
    \/ iio_close_dev
    \/ iio_get_mask
    \/ iio_transfer_dev_to_mem
    \/ iio_read_dev
    \/ iio_transfer_mem_to_dev
    \/ iio_write_dev

SpecDev == InitDev /\ [][NextDev]_vars

\* The network link alone.
InitNet ==
    /\ InitReg
    /\ InitCall
    /\ InitMask
    /\ InitSockets
    /\ InitDesc
    /\ ub_traps = FALSE
    /\ free_clobbers = FALSE
    /\ buf = <<>>
    /\ scope = <<>>

NextNet ==
    \/ Connect
    \/ iio_step
    \/ network_read
    \/ iio_phy_write
    \/ read_command_done

SpecNet == InitNet /\ [][NextNet]_vars

\* The loop of _get_next_socket keeps calling socket_accept: a network_read
\* that can go on does go on.
SpecNetLive == InitNet /\ [][NextNet]_vars /\ WF_vars(network_read)

\* iio_get_xml on the registries iio_register builds.
NextXml ==
    \/ PointersValid /\ Register
    \/ iio_get_xml

SpecXml == Init /\ [][NextXml]_vars

\* Channel operations on a channel of any name of up to MaxName characters,
\* the name being the one the client keeps addressing.
InitChan ==
    /\ InitReg
    /\ \E name \in Names, ch_out \in BOOLEAN :
           req = Req("none", NULL, "adc", name, ch_out, "", 0, FALSE)
    /\ status = "idle"
    /\ ret = 0
    /\ calls = <<>>
    /\ oob = FALSE
    /\ InitMask
    /\ InitSockets
    /\ InitDesc
    /\ ub_traps = FALSE
    /\ free_clobbers = FALSE
    /\ buf = <<>>
    /\ scope = <<>>

NextChan == channel_attribute

SpecChan == InitChan /\ [][NextChan]_vars

\* Aggregate reads of long attribute lists.
InitTotal ==
    /\ InitReg
    /\ InitCall
    /\ InitMask
    /\ InitSockets
    /\ InitDesc
    /\ ub_traps = FALSE
    /\ free_clobbers = FALSE
    /\ scope \in LongScopes
    /\ buf = Fresh(StaleByte)

NextTotal == FrameRead

SpecTotal == InitTotal /\ [][NextTotal]_vars

\* Start-up: iio_init called again and again.
NextInit == iio_init

SpecInit == InitNet /\ [][NextInit]_vars

(***************************************************************************)
(* What lookup sees, and what it ought to see.                             *)
(***************************************************************************)
\* The records iio_get_interface scans, in order (NULL for an unusable slot).
Registry ==
    IF iio_interfaces = "NULL" THEN <<>>
    ELSE [i \in 1..num_interfaces |-> IF BadSlot(i) THEN NULL ELSE interfaces[i]]

\* The registry is a live block holding exactly num_interfaces records.
RegistrySound ==
    /\ iio_interfaces = "live"
    /\ interfaces_ptr = "live"
    /\ Len(interfaces) = num_interfaces
    /\ \A i \in DOMAIN interfaces : interfaces[i] # NULL

RegistryIntact == RegistrySound \/ (iio_interfaces = "NULL" /\ num_interfaces = 0)

FirstByName(s, nm) ==
    IF HasName(s, nm)
    THEN s[FirstIndex({i \in DOMAIN s : s[i] # NULL /\ Name(s[i]) = nm})]
    ELSE NULL

(***************************************************************************)
(* Registry claims (specification Spec).                                   *)
(***************************************************************************)
\* C1: unregister(r), when some record of the registry L has r's name, succeeds
\* and leaves lookup with exactly L minus the first record of that name, the
\* other records in their order.
C1_UnregisterRemovesFirstMatch ==
    [][ (/\ req'.op = "unregister"
         /\ ~req'.oom
         /\ RegistrySound
         /\ HasName(Registry, req'.device))
        => (/\ status' = "returned"
            /\ ret' = SUCCESS
            /\ Registry' = RemoveFirst(Registry, req'.device)) ]_vars

\* C2: unregister(r), when no record has r's name, fails and leaves the registry
\* unchanged: the same records, in the same order, behind pointers that are
\* still valid.
C2_UnregisterUnknownKeepsRegistry ==
    [][ (/\ req'.op = "unregister"
         /\ ~req'.oom
         /\ RegistrySound
         /\ ~HasName(Registry, req'.device))
        => (/\ status' = "returned"
            /\ ret' < 0
            /\ Registry' = Registry
            /\ RegistrySound') ]_vars

\* C3: after a register call the records lookup reaches are exactly those whose
\* register succeeded and that were not unregistered since, and a register that
\* fails with -ENOMEM leaves the record count and every record as they were.
C3_FailedRegisterKeepsRegistry ==
    [][ (/\ req'.op = "register"
         /\ RegistryIntact
         /\ Registry = present)
        => (/\ status' = "returned"
            /\ Registry' = present'
            /\ (ret' # SUCCESS => /\ num_interfaces' = num_interfaces
                                  /\ Registry' = Registry
                                  /\ RegistryIntact')) ]_vars

\* C4: register appends and accepts duplicate names, and lookup(name) resolves
\* to the earliest registered record of that name among those still present:
\* once one of several records sharing a name has been unregistered, lookup of
\* that name finds the earliest of the remaining ones.
C4_LookupFindsEarliestPresent ==
    (/\ req.op = "unregister"
     /\ status = "returned"
     /\ ret = SUCCESS
     /\ HasName(present, req.device))
    => iio_get_interface(req.device) = FirstByName(present, req.device)

(***************************************************************************)
(* Dispatcher claims (specification SpecAttr).                             *)
(***************************************************************************)
AttrOps == {"read_attr", "write_attr", "ch_read_attr", "ch_write_attr"}
ChOps == {"ch_read_attr", "ch_write_attr"}
Resolved(device) == iio_get_interface(device) \notin {NULL, TRAP}

HasChannel(iface, channel, ch_out) ==
    \E i \in DOMAIN Devices[iface].channels :
        /\ Devices[iface].channels[i].name = channel
        /\ Devices[iface].channels[i].ch_out = ch_out

\* The attribute list a request addresses: the device's, or its channel's.
ScopeOf(iface, el) ==
    IF el.channel = "" THEN Devices[iface].attributes
    ELSE LET hits == {i \in DOMAIN Devices[iface].channels :
                         /\ Devices[iface].channels[i].name = el.channel
                         /\ Devices[iface].channels[i].ch_out = el.ch_out}
         IN Devices[iface].channels[FirstIndex(hits)].attributes

\* C5: each of read_attr, write_attr, ch_read_attr and ch_write_attr, called
\* with a device name lookup does not find, returns a not-found error code
\* (FAILURE from the read entry points, -ENODEV from the write entry points)
\* and invokes no show or store handler.
C5_UnsupportedDeviceRejected ==
    (req.op \in AttrOps /\ iio_get_interface(req.device) = NULL)
    => (/\ status = "returned"
        /\ ret \in {FAILURE, -ENODEV}
        /\ calls = <<>>)

C5_Witness ==
    /\ req.op = "ch_write_attr"
    /\ req.attr = "raw"
    /\ present # <<>>
    /\ iio_get_interface(req.device) = NULL
    /\ status = "returned"
    /\ ret = -ENODEV

\* C6: for a supported device, ch_read_attr / ch_write_attr with a non-empty
\* channel name that no channel of the device carries with the requested
\* direction fails with a not-found code, invokes no handler and does not
\* index the channel array.
C6_UnknownChannelRejected ==
    (/\ req.op \in ChOps
     /\ req.channel # ""
     /\ Resolved(req.device)
     /\ Devices[iio_get_interface(req.device)].has_iio
     /\ ~HasChannel(iio_get_interface(req.device), req.channel, req.ch_out))
    => (/\ status = "returned"
        /\ ret \in {FAILURE, -ENOENT, -ENODEV}
        /\ calls = <<>>
        /\ ~oob)

\* C7: for a supported device and a resolved scope (the device, or an existing
\* channel) that has an attribute list, possibly empty, a read or write of a
\* non-empty attribute name that the list does not hold returns -ENOENT and
\* invokes no show or store handler.
C7_Case ==
    /\ req.op \in AttrOps
    /\ req.attr # ""
    /\ Resolved(req.device)
    /\ Devices[iio_get_interface(req.device)].has_iio
    /\ \/ req.channel = ""
       \/ HasChannel(iio_get_interface(req.device), req.channel, req.ch_out)
    /\ ~ScopeOf(iio_get_interface(req.device), req).null
    /\ \A i \in DOMAIN ScopeOf(iio_get_interface(req.device), req).list :
           ScopeOf(iio_get_interface(req.device), req).list[i].name # req.attr

Get(b, k) == IF k \in DOMAIN b THEN b[k] ELSE 0 - 1
RoundUp4(n) == 4 * ((n + 3) \div 4)

\* The signed 32-bit big-endian integer at offset pos.
BE32(b, pos) ==
    (IF Get(b, pos + 1) >= 128 THEN Get(b, pos + 1) - 256 ELSE Get(b, pos + 1)) * 16777216
        + Get(b, pos + 2) * 65536 + Get(b, pos + 3) * 256 + Get(b, pos + 4)

RECURSIVE ParseRecords(_, _, _)
ParseRecords(b, pos, end) ==
    IF pos >= end THEN <<>>
    ELSE LET n == BE32(b, pos)
         IN IF n < 0 \/ pos + 4 + n > Len(b)
            THEN <<[len |-> n, val |-> <<>>]>>
            ELSE <<[len |-> n, val |-> [k \in 1..n |-> b[pos + 4 + k]]]>>
                     \o ParseRecords(b, pos + 4 + RoundUp4(n), end)

AllShowsSucceed == \A i \in DOMAIN scope : show_ret(scope[i]) >= 0

\* Every show handler leaves text: no zero byte among the bytes it counts.
ShowsText ==
    \A i \in DOMAIN scope :
        \A k \in 1..show_ret(scope[i]) : show_buf(scope[i])[k] # 0

ShownRecords ==
    [i \in DOMAIN scope |->
        [len |-> show_ret(scope[i]),
         val |-> SubSeq(show_buf(scope[i]), 1, show_ret(scope[i]))]]

RECURSIVE RecordOffset(_)
RecordOffset(i) ==
    IF i = 1 THEN 0
    ELSE RecordOffset(i - 1) + 4
             + (IF show_ret(scope[i - 1]) >= 0 THEN RoundUp4(show_ret(scope[i - 1])) ELSE 0)

\* C9: after an aggregate read every padding byte between the end of a record's
\* value and the next 4-byte boundary is zero, whatever the buffer held before
\* (show handlers that leave text).
C9_PaddingIsZero ==
    (req.op = "read_all" /\ ShowsText)
    => \A i \in DOMAIN scope :
           show_ret(scope[i]) >= 0
           => \A k \in (RecordOffset(i) + 4 + show_ret(scope[i]))
                         .. (RecordOffset(i) + 4 + RoundUp4(show_ret(scope[i])) - 1) :
                  Get(buf, k + 1) = 0

RECURSIVE ExpectedStores(_, _, _, _)
ExpectedStores(b, attributes, i, cursor) ==
    IF i > Len(attributes) THEN <<>>
    ELSE <<Call("store", attributes[i].name, cursor + 4, BE32(b, cursor))>>
             \o ExpectedStores(b, attributes, i + 1,
                               cursor + 4 + RoundUp4(BE32(b, cursor)))

\* C10: an aggregate write invokes the store handler of every attribute once,
\* in list order, with the length decoded from the 4-byte big-endian prefix at
\* the cursor and the bytes that follow it, the cursor then advancing by 4 plus
\* that length rounded up to a multiple of 4.
C10_WellFramed ==
    \A i \in DOMAIN ExpectedStores(buf, scope, 1, 0) :
        /\ ExpectedStores(buf, scope, 1, 0)[i].len >= 0
        /\ ExpectedStores(buf, scope, 1, 0)[i].off + ExpectedStores(buf, scope, 1, 0)[i].len
               <= req.len

C10_AggregateWriteDecodesPrefix ==
    (req.op = "write_all" /\ C10_WellFramed)
    => calls = ExpectedStores(buf, scope, 1, 0)

TransferOps == {"transfer_dev_to_mem", "read_dev", "transfer_mem_to_dev", "write_dev"}
CallbackOf ==
    [op \in TransferOps |->
        CASE op = "transfer_dev_to_mem" -> "transfer_dev_to_mem"
          [] op = "read_dev" -> "read_data"
          [] op = "transfer_mem_to_dev" -> "transfer_mem_to_dev"
          [] op = "write_dev" -> "write_data"]
NotFoundCodes == {FAILURE, -ENODEV, -ENOENT}
ValidRange(r) == 0 .. (num_ch[r] - 1)
Target == iio_get_interface(req.device)

\* What open and get_mask do apart from the code of the out-of-range failure.
C12_OpenBut(codes) ==
    /\ (req.op = "open" /\ Resolved(req.device) /\ num_ch[Target] \in 1..32)
       => /\ status = "returned"
          /\ req.mask \subseteq ValidRange(Target)
                => (ret = SUCCESS /\ ch_mask[Target] = req.mask)
          /\ ~(req.mask \subseteq ValidRange(Target)) => ret \in codes
    /\ (req.op = "open" /\ Target = NULL)
       => (status = "returned" /\ ret = -ENODEV)
    /\ (req.op = "get_mask" /\ Resolved(req.device))
       => (status = "returned" /\ ret = SUCCESS /\ buf = <<ch_mask[Target]>>)

C13_MaskWithinChannels ==
    \A r \in Ifaces : ch_mask[r] \subseteq ValidRange(r)

\* C14: the stored mask of every interface changes only by a successful open of
\* it (to the mask opened) and by a successful close of it (to 0); get_mask
\* returns the stored mask and every transfer callback is handed it.
C14_MaskFollowsOpenClose ==
    [][ /\ \A r \in Ifaces :
             ch_mask'[r] =
                 IF /\ req'.op = "open" /\ status' = "returned" /\ ret' = SUCCESS
                    /\ iio_get_interface(req'.device) = r
                 THEN req'.mask
                 ELSE IF /\ req'.op = "close" /\ status' = "returned" /\ ret' = SUCCESS
                         /\ iio_get_interface(req'.device) = r
                 THEN {}
                 ELSE ch_mask[r]
        /\ (req'.op = "get_mask" /\ status' = "returned" /\ ret' = SUCCESS)
             => buf' = <<ch_mask[iio_get_interface(req'.device)]>>
        /\ (req'.op \in TransferOps /\ status' = "returned")
             => \A i \in DOMAIN calls' :
                    /\ calls'[i].iface = iio_get_interface(req'.device)
                    /\ calls'[i].mask = ch_mask[calls'[i].iface]
      ]_vars

C14_Witness ==
    /\ req.op = "read_dev"
    /\ status = "returned"
    /\ \E r \in Ifaces : calls = <<DevCall("read_data", r, 0..3)>>
    /\ \E r \in Ifaces : r # Target /\ ch_mask[r] = {0}

\* C15: a transfer naming a device that is not registered fails with a
\* not-found code without reading any interface record or calling anything;
\* naming a registered device that lacks the callback it fails with a code of
\* its own (not supported), not with a not-found code.
C15_TransferRejectsUnknown ==
    /\ (req.op \in TransferOps /\ Target = NULL)
       => (status = "returned" /\ ret \in NotFoundCodes /\ calls = <<>> /\ ~oob)
    /\ (/\ req.op \in TransferOps
        /\ Resolved(req.device)
        /\ CallbackOf[req.op] \notin Devices[Target].callbacks)
       => (status = "returned" /\ ret < 0 /\ ret \notin NotFoundCodes /\ calls = <<>>)

(***************************************************************************)
(* Network claims (specification SpecNet).                                 *)
(***************************************************************************)
Accepted == 1..accepted
Queued == Range(sockets)
Held(s) == s \in Queued \/ s = current_sock \/ removed[s] > 0
NoneDisconnected == \A s \in Sockets : removed[s] = 0
InRotation == {s \in Accepted : s \in Queued \/ s = current_sock}
TimesServed(c, i, j) == Cardinality({m \in (i + 1)..(j - 1) : served[m] = c})

C17_DisconnectedNeverReturns ==
    /\ [](\A s \in Sockets :
             /\ removed[s] <= 1
             /\ removed[s] = 1 => (s \notin Queued /\ s # current_sock))
    /\ [][ /\ (\E s \in Sockets : removed'[s] # removed[s])
              => /\ current_sock' = DEAD
                 /\ \E s \in Sockets :
                       /\ s = (IF current_sock = NULL
                               THEN Head(sockets \o <<accepted + 1>>)
                               ELSE current_sock)
                       /\ removed' = [removed EXCEPT ![s] = 1]
                 /\ SelectSeq(sockets', LAMBDA x : x \in Queued)
                       = (IF current_sock = NULL /\ sockets # <<>>
                          THEN Tail(sockets) ELSE sockets)
           /\ served' # served
              => served' = Append(served, Head(sockets \o <<accepted + 1>>))
         ]_vars

C17_Witness ==
    /\ removed[1] = 1
    /\ current_sock = 3
    /\ sockets = <<2>>
    /\ served = <<1, 2, 3>>

\* C18: every connection socket_accept has returned is queued, is the current
\* one, or has been removed.
C18_NoConnectionLost == \A s \in Accepted : Held(s)

\* C19: the queue never holds more than MAX_SOCKET_TO_HANDLE connections, holds
\* none twice and never the current one, and the receive, send and remove calls
\* of one operation all address the same single connection.
C19_QueueBounded ==
    /\ Len(sockets) <= MAX_SOCKET_TO_HANDLE
    /\ \A i, j \in DOMAIN sockets : sockets[i] = sockets[j] => i = j
    /\ current_sock \notin Queued
    /\ req.op \in {"network_read", "iio_phy_write"}
         => \A i \in DOMAIN calls :
                /\ calls[i].sock = calls[1].sock
                /\ calls[i].sock \in Accepted
                /\ current_sock # DEAD => calls[i].sock = current_sock

C19_Witness ==
    /\ Len(sockets) = MAX_SOCKET_TO_HANDLE
    /\ waiting > 0
    /\ current_sock = NULL
    /\ pc = "command"

(***************************************************************************)
(* Capability document claim (specification SpecXml).                      *)
(***************************************************************************)
\* C20: iio_get_xml either fails, returning a negative value, leaving the
\* caller's reference as it was and holding no document block, the block it
\* had allocated freed once; or succeeds with no step having failed, the
\* reference then holding the header, the fragment of every registered
\* interface in registration order, and the closing tag.
C20_XmlAllOrNothing ==
    [][ (req'.op = "get_xml" /\ status' = "returned")
        => IF ret' = SUCCESS
           THEN /\ ~req'.no_out
                /\ req'.fail_at \notin 1..(2 * Len(present) + 2)
                /\ outxml' = <<"header">> \o present \o <<"header_end">>
                /\ xml_heap' = [live |-> 1, freed |-> 0]
           ELSE /\ ret' < 0
                /\ req'.no_out \/ req'.fail_at \in 1..(2 * Len(present) + 2)
                /\ outxml' = outxml
                /\ xml_heap'.live = 0
                /\ xml_heap'.freed = (IF req'.no_out \/ req'.fail_at = 1 THEN 0 ELSE 1)
      ]_vars

C20_Witness ==
    /\ req.op = "get_xml"
    /\ status = "returned"
    /\ req.fail_at = 5
    /\ ret < 0
    /\ present = <<2, 1>>
    /\ outxml = <<"header", 2, "header_end">>
    /\ xml_heap = [live |-> 0, freed |-> 1]

(***************************************************************************)
(* Channel number claims (specification SpecChan).                         *)
(***************************************************************************)
ChannelOps == {"ch_read", "ch_write"}
NO_ID == -1
DigitAt(name, i) == name[i] \in 48..57
DigitIndices(name) == {i \in DOMAIN name : DigitAt(name, i)}
LastOf(S) == CHOOSE i \in S : \A k \in S : k <= i

\* The last maximal run of decimal digits of a name that has a digit.
LastRun(name) ==
    LET e == LastOf(DigitIndices(name))
        s == FirstIndex({k \in 1..e : \A m \in k..e : DigitAt(name, m)})
    IN SubSeq(name, s, e)

RECURSIVE Decimal(_)
Decimal(digits) ==
    IF digits = <<>> THEN 0
    ELSE 10 * Decimal(SubSeq(digits, 1, Len(digits) - 1)) + (digits[Len(digits)] - 48)

ChannelId(name) ==
    IF DigitIndices(name) = {} THEN NO_ID ELSE Decimal(LastRun(name))

\* C21: the id handed to the handlers of a channel operation is the decimal
\* value of the last maximal run of digits of the channel name, or the no-id
\* sentinel for a name without a digit; the operation is dispatched either
\* way: a named attribute has its handler called once, an aggregate read
\* calls every handler.
C21_ChannelNumber ==
    req.op \in ChannelOps =>
        /\ status = "returned"
        /\ \A i \in DOMAIN calls : calls[i].ch_num = ChannelId(req.channel)
        /\ req.attr \in {"raw", "scale"} => Len(calls) = 1
        /\ (req.attr = "" /\ req.op = "ch_read") => Len(calls) = 2

\* "1v10": two runs of digits, the last one is 10.
C21_Witness ==
    /\ req.op = "ch_read"
    /\ req.channel = <<49, 118, 49, 48>>
    /\ req.attr = "raw"
    /\ Len(calls) = 1
    /\ calls[1].ch_num = 10

\* "vv": no digit, the handler is still called, with the sentinel.
C21_WitnessNoDigit ==
    /\ req.op = "ch_write"
    /\ req.channel = <<118, 118>>
    /\ req.attr = "raw"
    /\ Len(calls) = 1
    /\ calls[1].ch_num = NO_ID

(***************************************************************************)
(* Aggregate read total (specification SpecTotal).                         *)
(***************************************************************************)
\* Bytes of the record of one attribute: the length field and, for a handler
\* that succeeded, its value rounded up to a multiple of 4.
RecordBytes(a) == 4 + (IF show_ret(a) >= 0 THEN RoundUp4(show_ret(a)) ELSE 0)

RECURSIVE TotalBytes(_, _)
TotalBytes(attributes, n) ==
    IF n = 0 THEN 0 ELSE TotalBytes(attributes, n - 1) + RecordBytes(attributes[n])

\* C22: an aggregate read returns the total number of bytes it produced, the
\* sum of the record sizes of all attributes in scope, whatever their number
\* and lengths.
C22_AggregateReadReturnsTotal ==
    req.op = "read_all" =>
        /\ status = "returned"
        /\ ret = TotalBytes(scope, Len(scope))

(***************************************************************************)
(* Dispatch step, phy read and queue claims (specifications SpecNet and    *)
(* SpecNetLive).                                                           *)
(***************************************************************************)
ActiveCurrent == current_sock # NULL /\ current_sock # DEAD
\* The step taken is iio_step, up to its call of tinyiiod_read_command.
DispatchStep == pc = "idle" /\ req'.op = "iio_step" /\ waiting' = waiting
\* The step taken is a network_read.
ReadStep == pc \in {"command", "accept"} /\ req'.op = "network_read" /\ waiting' <= waiting

\* C23: every dispatch step appends an Active current connection to the tail
\* of the queue, pushes nothing for a Dead or Empty one, and leaves the slot
\* Empty when the command is read; its push cannot fail, the queued
\* connections and an Active current one never exceeding the queue's capacity.
C23_StepRequeuesCurrent ==
    /\ [](Len(sockets) + (IF ActiveCurrent THEN 1 ELSE 0) <= MAX_SOCKET_TO_HANDLE)
    /\ [][DispatchStep =>
            /\ ret' = SUCCESS
            /\ pc' = "command"
            /\ current_sock' = NULL
            /\ sockets' = IF ActiveCurrent THEN Append(sockets, current_sock)
                          ELSE sockets]_vars

\* A step has just filled the queue with the connection that was current.
C23_Witness ==
    /\ req.op = "iio_step"
    /\ pc = "command"
    /\ current_sock = NULL
    /\ Len(sockets) = MAX_SOCKET_TO_HANDLE
    /\ \E s \in Sockets : removed[s] > 0

\* The last socket_recv of the network_read just made failed with an error
\* other than -ENOTCONN.
ReadFailed ==
    /\ req.op = "network_read"
    /\ status = "returned"
    /\ calls # <<>>
    /\ calls[Len(calls)].kind = "socket_recv"
    /\ calls[Len(calls)].outcome = "error"

RECURSIVE BytesReceived(_, _)
BytesReceived(c, n) ==
    IF n = 0 THEN 0
    ELSE BytesReceived(c, n - 1)
            + (IF c[n].kind = "socket_recv" /\ c[n].outcome = "data" THEN c[n].n ELSE 0)

\* C24: after a receive failed with an error other than not-connected, the
\* read has stopped at that call, the destination buffer holds the sentinel,
\* the count returned is that of the bytes received before, and the
\* connection is not released: it stays current, and the end of the command
\* and the next dispatch step put it back at the tail of the queue.
C24_ReadErrorKeepsConnection ==
    /\ [](ReadFailed =>
            /\ ret = BytesReceived(calls, Len(calls))
            /\ SENTINEL \in Range(buf)
            /\ \A i \in DOMAIN calls :
                  calls[i].kind = "socket_recv" /\ (calls[i].outcome = "error" => i = Len(calls))
            /\ ActiveCurrent
            /\ current_sock = calls[1].sock
            /\ removed[current_sock] = 0)
    /\ [][(ActiveCurrent /\ pc = "command" /\ pc' = "idle")
            => current_sock' = current_sock]_vars
    /\ [][(ActiveCurrent /\ DispatchStep)
            => sockets' = Append(sockets, current_sock)]_vars

\* The first piece of the request arrived, then the receive failed.
C24_Witness ==
    /\ ReadFailed
    /\ ret = FirstPiece
    /\ Len(calls) = 2
    /\ buf[1] = SENTINEL

\* C25 (first part): a read issued with no current connection, nothing queued
\* and no client waiting does not return, unless socket_accept fails.
C25_BlocksWhileNoClient ==
    [][(ReadStep /\ current_sock = NULL /\ sockets = <<>> /\ waiting = 0)
        => (status' = "blocked" /\ pc' = "accept") \/ (ret' < 0 /\ calls' = <<>>)]_vars

\* C25 (second part): once a client has connected the blocked read returns,
\* having made that client the current connection.
C25_ReturnsOnceClientConnects ==
    /\ (pc = "accept" /\ waiting > 0) ~> (pc = "command" /\ status = "returned")
    /\ [][(pc = "accept" /\ ReadStep /\ ret' >= 0)
            => /\ served' = Append(served, accepted + 1)
               /\ current_sock' \in {accepted + 1, DEAD}
               /\ calls'[1].sock = accepted + 1]_vars

\* socket_accept itself failed in the step taken.
AcceptError == ret' < 0 /\ accepted' = accepted

\* C25 (third part): with a connection queued the read does not wait and
\* makes the head of the queue the current connection.
C25_PopsHeadWhenQueued ==
    [][(ReadStep /\ current_sock = NULL /\ sockets # <<>> /\ ~AcceptError)
        => /\ pc' = "command"
           /\ ret' >= 0
           /\ served' = Append(served, Head(sockets))]_vars

\* C25: a phy read with no connection at hand waits for a client and returns
\* with it as the current connection once one has connected; with a
\* connection queued it does not wait and pops the head of the queue.
C25_ReadWaitsForClient ==
    /\ C25_BlocksWhileNoClient
    /\ C25_ReturnsOnceClientConnects
    /\ C25_PopsHeadWhenQueued

\* C27: whatever the interleaving of dispatch steps, accepts, reads and
\* disconnections, no connection is queued twice and none is both queued and
\* the current connection.
C27_ConnectionHeldOnce ==
    /\ Cardinality(Queued) = Len(sockets)
    /\ ActiveCurrent => \A i \in DOMAIN sockets : sockets[i] # current_sock

\* Three connections queued behind the current one, after a disconnection.
C27_Witness ==
    /\ ActiveCurrent
    /\ Len(sockets) = MAX_SOCKET_TO_HANDLE - 1
    /\ \E s \in Sockets : removed[s] > 0
    /\ Len(served) = MaxServed

(***************************************************************************)
(* Start-up claim (specification SpecInit).                                *)
(***************************************************************************)
RECURSIVE Resources(_, _)
Resources(events, kind) ==
    IF events = <<>> THEN <<>>
    ELSE (IF Head(events).kind = kind THEN <<Head(events).res>> ELSE <<>>)
            \o Resources(Tail(events), kind)

Reverse(s) == [i \in 1..Len(s) |-> s[Len(s) + 1 - i]]

\* The resources of the failed call are all released, each once, in any order.
C26_AllReleasedOnce ==
    (req.op = "iio_init" /\ ret < 0)
        => /\ Range(Resources(calls, "release")) = Range(Resources(calls, "acquire"))
           /\ Len(Resources(calls, "release")) = Len(Resources(calls, "acquire"))

\* C26: a failed iio_init has released what it had acquired, each resource
\* once and in the reverse of the order of acquisition, nothing else, and
\* has set neither the caller's reference nor the global descriptor.
C26_InitRollsBack ==
    [][(req'.op = "iio_init" /\ ret' < 0)
        => /\ Resources(calls', "release") = Reverse(Resources(calls', "acquire"))
           /\ desc' = desc
           /\ g_desc' = g_desc]_vars

====
